---- MODULE Spec2Model ----
(***************************************************************************)
(* Model of the MongoDB compression benchmark (main.go): the per-algorithm *)
(* run driver testCompression, the orchestrator runAllCompressionTests,    *)
(* the reporter (displayResults and the functions it calls) and main.      *)
(***************************************************************************)
EXTENDS Integers, Sequences, FiniteSets, TLC

\* Encoded size of the generated document in bytes (about 4.7MB in the
\* program; a small stand-in here).
DocSize == 100

\* Insert durations range over 1..MaxInsertTime (milliseconds).
MaxInsertTime == 2

\* --------------------------------------------------------------------------
\* Arithmetic on float64 values, kept exact as normalised fractions num/den
\* (den = 0 stands for +Inf, the result of dividing a positive float by 0).
\* --------------------------------------------------------------------------
Abs(n) == IF n < 0 THEN -n ELSE n

RECURSIVE GCD(_, _)
GCD(a, b) == IF b = 0 THEN a ELSE GCD(b, a % b)

Frac(n, d) ==
    IF d = 0 THEN [num |-> 1, den |-> 0]
    ELSE IF n = 0 THEN [num |-> 0, den |-> 1]
    ELSE LET g == GCD(Abs(n), d) IN [num |-> n \div g, den |-> d \div g]

FracLess(a, b) == a.num * b.den < b.num * a.den

\* Go's int(f): truncation toward zero.
TruncToInt(f) ==
    IF f.num >= 0 THEN f.num \div f.den ELSE -((-f.num) \div f.den)

\* --------------------------------------------------------------------------
\* Static data
\* --------------------------------------------------------------------------
tests ==
    << [name |-> "Snappy", compressor |-> "snappy"],
       [name |-> "Zlib",   compressor |-> "zlib"],
       [name |-> "Zstd",   compressor |-> "zstd"] >>

ToLower(s) ==
    CASE s = "Snappy" -> "snappy"
      [] s = "Zlib"   -> "zlib"
      [] s = "Zstd"   -> "zstd"
      [] OTHER        -> s

CollectionName(algorithm) == "test_" \o ToLower(algorithm)

AllCollections == { CollectionName(tests[n].name) : n \in 1..Len(tests) }

\* getDocumentSize: the length of the document's BSON encoding.  The document
\* built by generateLargeDocument always encodes, so the error return is
\* never taken.
getDocumentSize == DocSize

\* Storage sizes the backend may report for the collection: nothing stored,
\* half the document, as much as the document, just above it, well above it.
StorageSizes == { 0, DocSize \div 2, DocSize, DocSize + 1, DocSize + DocSize \div 2 }

InsertTimes == 1..MaxInsertTime

\* Replies of the collStats command as decoded into a bson.M: the map lacks
\* storageSize, or holds it as an int32 or as an int64.
StatsReplies ==
    { [shape |-> "missing", storageSize |-> 0] }
    \cup { [shape |-> t, storageSize |-> s] : t \in {"int32", "int64"}, s \in StorageSizes }

\* The CompressionResult a run derives from the two sizes and the insert time.
DeriveResult(algorithm, originalSize, storageSize, insertTime) ==
    [ Algorithm        |-> algorithm,
      OriginalSize     |-> originalSize,
      CompressedSize   |-> storageSize,
      ReductionPercent |-> Frac((originalSize - storageSize) * 100, originalSize),
      CompressionRatio |-> Frac(originalSize, storageSize),
      InsertTime       |-> insertTime ]

\* result := CompressionResult{Algorithm: algorithm}
EmptyResult(algorithm) ==
    [ Algorithm        |-> algorithm,
      OriginalSize     |-> 0,
      CompressedSize   |-> 0,
      ReductionPercent |-> Frac(0, 1),
      CompressionRatio |-> Frac(0, 1),
      InsertTime       |-> 0 ]

VARIABLES
    pc,          \* position of the single thread of control
    i,           \* index into tests of the orchestrator's loop
    ctxExpired,  \* the context made in main has passed its deadline
    mainOpen,    \* main's own client is connected
    nextConn,    \* number of per-algorithm clients created so far
    client,      \* the client of the run in progress (0: none)
    conns,       \* per-algorithm clients connected now: [id, compressors]
    collections, \* collection name -> number of documents stored (0: absent)
    ops,         \* backend operations issued by the run in progress
    result,      \* testCompression's result value
    runErr,      \* testCompression's error ("" is nil)
    results,     \* the orchestrator's slice
    started,     \* indices of the tests for which testCompression was called
    late,        \* indices of the tests called after the deadline expired
    returned,    \* what runAllCompressionTests returned to main
    displayed,   \* displayResults was called
    dropDb,      \* number of database.Drop calls issued by main
    panicAt,     \* function in which the process panicked ("" if none)
    k,           \* loop index of the reporter's loops
    bars,        \* bar lengths drawn by displayComparisonChart
    bestCompression, fastest,
    network,     \* rows printed by the network traffic simulation
    costs        \* rows printed by displayCostAnalysis

vars == << pc, i, ctxExpired, mainOpen, nextConn, client, conns, collections,
           ops, result, runErr, results, started, late, returned, displayed,
           dropDb, panicAt, k, bars, bestCompression, fastest, network, costs >>

backendVars  == << conns, collections, nextConn, client, ops >>
reportVars   == << k, bars, bestCompression, fastest, network, costs >>

NoReturn == [nil |-> TRUE, results |-> << >>, err |-> "", failed |-> ""]

\* A previous invocation may have left its collections behind: none (it ran
\* to the cleanup), or those of the runs it completed before it stopped.
Residues ==
    { [c \in AllCollections |->
          IF \E m \in 1..n : c = CollectionName(tests[m].name) THEN 1 ELSE 0]
      : n \in 0..Len(tests) }

InitCommon ==
    /\ i = 1
    /\ ctxExpired = FALSE
    /\ mainOpen = FALSE
    /\ nextConn = 0
    /\ client = 0
    /\ conns = {}
    /\ ops = << >>
    /\ result = EmptyResult("")
    /\ runErr = ""
    /\ results = << >>
    /\ started = {}
    /\ late = {}
    /\ displayed = FALSE
    /\ dropDb = 0
    /\ panicAt = ""
    /\ k = 1
    /\ bars = << >>
    /\ bestCompression = EmptyResult("")
    /\ fastest = EmptyResult("")
    /\ network = << >>
    /\ costs = << >>

Init ==
    /\ InitCommon
    /\ pc = "main"
    /\ returned = NoReturn
    /\ collections \in Residues


\* --------------------------------------------------------------------------
\* Backend calls
\* --------------------------------------------------------------------------

\* Every backend call of a run is handed d.ctx, the context main made with
\* the 30 second timeout: a call that does I/O fails once that deadline passed.
\* Variant: the calls are handed a context without deadline.
CallCtxBackground == FALSE

CallCtxExpired == ctxExpired

Op(name, conn, coll, ok, kind) ==
    [op |-> name, conn |-> conn, coll |-> coll, ok |-> ok, kind |-> kind,
     expired |-> CallCtxExpired]

\* defer client.Disconnect(d.ctx): runs when testCompression returns or
\* panics, on the client this call connected.
\* Variant: the client is not disconnected on return.
NoDisconnect(cs) == cs

DeferredDisconnect(cs) == { c \in cs : c.id # client }

\* return nil, fmt.Errorf("%s test failed: %v", test.name, err)
\* Variant: the error return hands back the results collected so far.
ErrReturnPartial(rs, name, e) ==
    [nil |-> rs = << >>, results |-> rs, err |-> e, failed |-> name]

ErrReturn(rs, name, e) == [nil |-> TRUE, results |-> << >>, err |-> e, failed |-> name]

\* results = append(results, result)
\* Variant: the result is put in front of the slice.
CollectedInFront(rs, r) == << r >> \o rs

Collected(rs, r) == Append(rs, r)

\* --------------------------------------------------------------------------
\* main, up to the call of runAllCompressionTests
\* --------------------------------------------------------------------------

\* mongo.Connect of main's own client; on an error log.Fatalf ends the process.
MainConnect ==
    /\ pc = "main"
    /\ \/ /\ mainOpen' = TRUE
          /\ pc' = "generate"
       \/ /\ mainOpen' = FALSE
          /\ pc' = "fatal"
    /\ UNCHANGED << i, ctxExpired, backendVars, result, runErr, results, started,
                    late, returned, displayed, dropDb, panicAt, reportVars >>

\* generateLargeDocument and getDocumentSize, then the call of
\* runAllCompressionTests.
MainGenerate ==
    /\ pc = "generate"
    /\ pc' = "loop"
    /\ i' = 1
    /\ results' = << >>
    /\ UNCHANGED << ctxExpired, mainOpen, backendVars, result, runErr, started,
                    late, returned, displayed, dropDb, panicAt, reportVars >>

\* --------------------------------------------------------------------------
\* runAllCompressionTests
\* --------------------------------------------------------------------------

\* One iteration of the loop begins: testCompression is called and measures
\* the document.
StartTest ==
    /\ pc = "loop"
    /\ i <= Len(tests)
    /\ started' = started \cup {i}
    /\ late' = IF ctxExpired THEN late \cup {i} ELSE late
    /\ result' = [EmptyResult(tests[i].name) EXCEPT !.OriginalSize = getDocumentSize]
    /\ runErr' = ""
    /\ ops' = << >>
    /\ client' = 0
    /\ pc' = "tc_connect"
    /\ UNCHANGED << i, ctxExpired, mainOpen, nextConn, conns, collections, results,
                    returned, displayed, dropDb, panicAt, reportVars >>

\* The loop is over: return results, nil.
ReturnResults ==
    /\ pc = "loop"
    /\ i > Len(tests)
    /\ returned' = [nil |-> results = << >>, results |-> results, err |-> "", failed |-> ""]
    /\ pc' = "main_check"
    /\ UNCHANGED << i, ctxExpired, mainOpen, backendVars, result, runErr, results,
                    started, late, displayed, dropDb, panicAt, reportVars >>

\* testCompression returned nil as its error: the result is appended.
Collect ==
    /\ pc = "tc_return"
    /\ runErr = ""
    /\ results' = Collected(results, result)
    /\ pc' = "sleep"
    /\ UNCHANGED << i, ctxExpired, mainOpen, backendVars, result, runErr, started,
                    late, returned, displayed, dropDb, panicAt, reportVars >>

\* testCompression returned an error: the orchestrator returns at once.
Abort ==
    /\ pc = "tc_return"
    /\ runErr # ""
    /\ returned' = ErrReturn(results, tests[i].name, runErr)
    /\ pc' = "main_check"
    /\ UNCHANGED << i, ctxExpired, mainOpen, backendVars, result, runErr, results,
                    started, late, displayed, dropDb, panicAt, reportVars >>

\* time.Sleep(100 * time.Millisecond), then the next iteration.
Sleep ==
    /\ pc = "sleep"
    /\ i' = i + 1
    /\ pc' = "loop"
    /\ UNCHANGED << ctxExpired, mainOpen, backendVars, result, runErr, results,
                    started, late, returned, displayed, dropDb, panicAt, reportVars >>

\* --------------------------------------------------------------------------
\* testCompression
\* --------------------------------------------------------------------------
Coll == CollectionName(result.Algorithm)

\* mongo.Connect with the single compressor.  Connect starts the client's
\* monitoring and does no I/O of its own, so it may return a client even after
\* the deadline; an error leaves no client and nothing is deferred.
TcConnect ==
    /\ pc = "tc_connect"
    /\ \/ /\ nextConn' = nextConn + 1
          /\ client' = nextConn + 1
          /\ conns' = conns \cup { [id |-> nextConn + 1,
                                    compressors |-> << tests[i].compressor >>] }
          /\ ops' = Append(ops, Op("connect", nextConn + 1, "", TRUE, ""))
          /\ pc' = "tc_drop"
          /\ UNCHANGED runErr
       \/ /\ runErr' = IF CallCtxExpired THEN "cancel" ELSE "connection"
          /\ ops' = Append(ops, Op("connect", 0, "", FALSE, runErr'))
          /\ pc' = "tc_return"
          /\ UNCHANGED << nextConn, client, conns >>
    /\ UNCHANGED << i, ctxExpired, mainOpen, collections, result, results, started,
                    late, returned, displayed, dropDb, panicAt, reportVars >>

\* collection.Drop(d.ctx); its error is not looked at.
TcDrop ==
    /\ pc = "tc_drop"
    /\ collections' = IF CallCtxExpired THEN collections
                      ELSE [collections EXCEPT ![Coll] = 0]
    /\ ops' = Append(ops, Op("drop", client, Coll, ~CallCtxExpired,
                             IF CallCtxExpired THEN "cancel" ELSE ""))
    /\ pc' = "tc_insert"
    /\ UNCHANGED << i, ctxExpired, mainOpen, nextConn, client, conns, result, runErr,
                    results, started, late, returned, displayed, dropDb, panicAt,
                    reportVars >>

\* collection.InsertOne(d.ctx, doc) succeeded after t milliseconds.
TcInsertOk ==
    /\ pc = "tc_insert"
    /\ ~CallCtxExpired
    /\ \E t \in InsertTimes : result' = [result EXCEPT !.InsertTime = t]
    /\ collections' = [collections EXCEPT ![Coll] = @ + 1]
    /\ ops' = Append(ops, Op("insert", client, Coll, TRUE, ""))
    /\ pc' = "tc_stats"
    /\ UNCHANGED << i, ctxExpired, mainOpen, nextConn, client, conns, runErr, results,
                    started, late, returned, displayed, dropDb, panicAt, reportVars >>

\* Variant: the insert error is not looked at and the run goes on.
TcInsertFailIgnored ==
    /\ pc = "tc_insert"
    /\ ops' = Append(ops, Op("insert", client, Coll, FALSE,
                             IF CallCtxExpired THEN "cancel" ELSE "write"))
    /\ pc' = "tc_stats"
    /\ UNCHANGED << i, ctxExpired, mainOpen, nextConn, client, conns, collections,
                    result, runErr, results, started, late, returned, displayed,
                    dropDb, panicAt, reportVars >>

\* collection.InsertOne failed: return result, err.
TcInsertFail ==
    /\ pc = "tc_insert"
    /\ runErr' = IF CallCtxExpired THEN "cancel" ELSE "write"
    /\ ops' = Append(ops, Op("insert", client, Coll, FALSE, runErr'))
    /\ conns' = DeferredDisconnect(conns)
    /\ pc' = "tc_return"
    /\ UNCHANGED << i, ctxExpired, mainOpen, nextConn, client, collections, result,
                    results, started, late, returned, displayed, dropDb, panicAt,
                    reportVars >>

\* statsResult["storageSize"].(int64): the assertion holds only for an int64.
StorageSizeIsInt64(reply) == reply.shape = "int64"

\* database.RunCommand(collStats) failed or its reply does not decode:
\* return result, err.
TcStatsError ==
    /\ pc = "tc_stats"
    /\ runErr' = IF CallCtxExpired THEN "cancel" ELSE "stats"
    /\ ops' = Append(ops, Op("stats", client, Coll, FALSE, runErr'))
    /\ conns' = DeferredDisconnect(conns)
    /\ pc' = "tc_return"
    /\ UNCHANGED << i, ctxExpired, mainOpen, nextConn, client, collections, result,
                    results, started, late, returned, displayed, dropDb, panicAt,
                    reportVars >>

\* The reply decoded, but storageSize is absent or no int64: the type
\* assertion panics.  The deferred calls of testCompression and of main run
\* while the panic unwinds.
TcStatsPanic ==
    /\ pc = "tc_stats"
    /\ ~CallCtxExpired
    /\ \E reply \in StatsReplies :
          /\ ~StorageSizeIsInt64(reply)
          /\ ops' = Append(ops, Op("stats", client, Coll, TRUE, reply.shape))
    /\ conns' = DeferredDisconnect(conns)
    /\ mainOpen' = FALSE
    /\ panicAt' = "testCompression"
    /\ pc' = "panic"
    /\ UNCHANGED << i, ctxExpired, nextConn, client, collections, result, runErr,
                    results, started, late, returned, displayed, dropDb, reportVars >>

\* The reply holds storageSize as an int64: derive the metrics, return
\* result, nil.
TcStatsOk ==
    /\ pc = "tc_stats"
    /\ ~CallCtxExpired
    /\ \E reply \in StatsReplies :
          /\ StorageSizeIsInt64(reply)
          /\ result' = DeriveResult(result.Algorithm, result.OriginalSize,
                                    reply.storageSize, result.InsertTime)
          /\ ops' = Append(ops, Op("stats", client, Coll, TRUE, ""))
    /\ runErr' = ""
    /\ conns' = DeferredDisconnect(conns)
    /\ pc' = "tc_return"
    /\ UNCHANGED << i, ctxExpired, mainOpen, nextConn, client, collections, results,
                    started, late, returned, displayed, dropDb, panicAt, reportVars >>

\* The 30 second deadline of main's context passes.
DeadlineExpires ==
    /\ ~ctxExpired
    /\ pc \notin {"done", "fatal", "panic"}
    /\ ctxExpired' = TRUE
    /\ UNCHANGED << pc, i, mainOpen, backendVars, result, runErr, results, started,
                    late, returned, displayed, dropDb, panicAt, reportVars >>


\* --------------------------------------------------------------------------
\* main, after runAllCompressionTests returned
\* --------------------------------------------------------------------------
Shown == returned.results

\* err != nil: log.Fatalf prints and exits the process; no deferred call runs
\* and the statements after it are not reached.
MainFatal ==
    /\ pc = "main_check"
    /\ returned.err # ""
    /\ pc' = "fatal"
    /\ UNCHANGED << i, ctxExpired, mainOpen, backendVars, result, runErr, results,
                    started, late, returned, displayed, dropDb, panicAt, reportVars >>

\* displayResults(results, originalSizeMB): the per-result lines are printed,
\* then displayComparisonChart is entered.
DisplayResults ==
    /\ pc = "main_check"
    /\ returned.err = ""
    /\ displayed' = TRUE
    /\ k' = 1
    /\ bars' = << >>
    /\ pc' = "chart"
    /\ UNCHANGED << i, ctxExpired, mainOpen, backendVars, result, runErr, results,
                    started, late, returned, dropDb, panicAt, bestCompression,
                    fastest, network, costs >>

\* --------------------------------------------------------------------------
\* The reporter
\* --------------------------------------------------------------------------

\* bars := int(result.ReductionPercent / 2)
Bars(r) == TruncToInt(Frac(r.ReductionPercent.num, r.ReductionPercent.den * 2))

\* One row of the chart: strings.Repeat("█", bars).
ChartStep ==
    /\ pc = "chart"
    /\ k <= Len(Shown)
    /\ Bars(Shown[k]) >= 0
    /\ bars' = Append(bars, Bars(Shown[k]))
    /\ k' = k + 1
    /\ UNCHANGED << pc, i, ctxExpired, mainOpen, backendVars, result, runErr, results,
                    started, late, returned, displayed, dropDb, panicAt,
                    bestCompression, fastest, network, costs >>

\* strings.Repeat panics on a negative count; main's deferred calls run while
\* the panic unwinds.
ChartPanic ==
    /\ pc = "chart"
    /\ k <= Len(Shown)
    /\ Bars(Shown[k]) < 0
    /\ panicAt' = "displayComparisonChart"
    /\ mainOpen' = FALSE
    /\ pc' = "panic"
    /\ UNCHANGED << i, ctxExpired, backendVars, result, runErr, results, started,
                    late, returned, displayed, dropDb, reportVars >>

\* displayPerformanceAnalysis begins: bestCompression := results[0],
\* fastest := results[0] (an index out of range on an empty slice).
ChartDone ==
    /\ pc = "chart"
    /\ k > Len(Shown)
    /\ IF Len(Shown) = 0
       THEN /\ pc' = "panic"
            /\ panicAt' = "displayPerformanceAnalysis"
            /\ mainOpen' = FALSE
            /\ UNCHANGED << k, bestCompression, fastest >>
       ELSE /\ pc' = "analysis"
            /\ bestCompression' = Shown[1]
            /\ fastest' = Shown[1]
            /\ k' = 1
            /\ UNCHANGED << panicAt, mainOpen >>
    /\ UNCHANGED << i, ctxExpired, backendVars, result, runErr, results, started,
                    late, returned, displayed, dropDb, bars, network, costs >>

\* Variant: the comparison is >=.
BetterOrEqualCompression(r, best) == ~FracLess(r.ReductionPercent, best.ReductionPercent)

\* result.ReductionPercent > bestCompression.ReductionPercent
BetterCompression(r, best) == FracLess(best.ReductionPercent, r.ReductionPercent)

\* result.InsertTime < fastest.InsertTime
FasterInsert(r, best) == r.InsertTime < best.InsertTime

\* One iteration of the loop that finds the best compression and the fastest
\* insert.
AnalysisStep ==
    /\ pc = "analysis"
    /\ k <= Len(Shown)
    /\ bestCompression' = IF BetterCompression(Shown[k], bestCompression)
                          THEN Shown[k] ELSE bestCompression
    /\ fastest' = IF FasterInsert(Shown[k], fastest) THEN Shown[k] ELSE fastest
    /\ k' = k + 1
    /\ UNCHANGED << pc, i, ctxExpired, mainOpen, backendVars, result, runErr, results,
                    started, late, returned, displayed, dropDb, panicAt, bars,
                    network, costs >>

\* The two winners are printed; the network traffic simulation begins.
AnalysisDone ==
    /\ pc = "analysis"
    /\ k > Len(Shown)
    /\ pc' = "network"
    /\ k' = 1
    /\ network' = << >>
    /\ UNCHANGED << i, ctxExpired, mainOpen, backendVars, result, runErr, results,
                    started, late, returned, displayed, dropDb, panicAt, bars,
                    bestCompression, fastest, costs >>

\* const monthlyTransfers = 1000000
monthlyTransfers == 1000000

\* Variant: the simulation uses the monthly transfer count.
NetworkTransfersMonthly == monthlyTransfers

\* Number of transfers of the network traffic simulation.
NetworkTransfers == 1000

\* const costPerGB = 0.09, in cents.
costPerGBCents == 9

\* f * 100 on a fraction.
Percent(f) == Frac(f.num * 100, f.den)

\* One row of the simulation.  Sizes are kept in bytes where the program
\* prints megabytes (bytes / 1024 / 1024).
NetworkRow(r, originalSize) ==
    LET total    == r.CompressedSize * NetworkTransfers
        original == originalSize * NetworkTransfers
        saved    == original - total
    IN  [ Algorithm      |-> r.Algorithm,
          total          |-> total,
          saved          |-> saved,
          savingsPercent |-> Percent(Frac(saved, original)) ]

NetworkStep ==
    /\ pc = "network"
    /\ k <= Len(Shown)
    /\ network' = Append(network, NetworkRow(Shown[k], Shown[1].OriginalSize))
    /\ k' = k + 1
    /\ UNCHANGED << pc, i, ctxExpired, mainOpen, backendVars, result, runErr, results,
                    started, late, returned, displayed, dropDb, panicAt, bars,
                    bestCompression, fastest, costs >>

\* displayCostAnalysis(results, originalSizeMB) is called.
NetworkDone ==
    /\ pc = "network"
    /\ k > Len(Shown)
    /\ pc' = "cost"
    /\ k' = 1
    /\ costs' = << >>
    /\ UNCHANGED << i, ctxExpired, mainOpen, backendVars, result, runErr, results,
                    started, late, returned, displayed, dropDb, panicAt, bars,
                    bestCompression, fastest, network >>

\* One row of the cost analysis.  volume is bytes transferred per month (the
\* program's costGB is volume / 1024^3); cost is in cents times 1024^3.
CostRow(r, originalSize) ==
    LET originalCost == originalSize * monthlyTransfers * costPerGBCents
        volume       == r.CompressedSize * monthlyTransfers
        cost         == volume * costPerGBCents
        savings      == originalCost - cost
    IN  [ Algorithm     |-> r.Algorithm,
          volume        |-> volume,
          cost          |-> cost,
          savings       |-> savings,
          costReduction |-> Percent(Frac(savings, originalCost)) ]

CostStep ==
    /\ pc = "cost"
    /\ k <= Len(Shown)
    /\ costs' = Append(costs, CostRow(Shown[k], Shown[1].OriginalSize))
    /\ k' = k + 1
    /\ UNCHANGED << pc, i, ctxExpired, mainOpen, backendVars, result, runErr, results,
                    started, late, returned, displayed, dropDb, panicAt, bars,
                    bestCompression, fastest, network >>

\* displayCostAnalysis, displayPerformanceAnalysis and displayResults return.
CostDone ==
    /\ pc = "cost"
    /\ k > Len(Shown)
    /\ pc' = "expected"
    /\ UNCHANGED << i, ctxExpired, mainOpen, backendVars, result, runErr, results,
                    started, late, returned, displayed, dropDb, panicAt, reportVars >>

\* displayExpectedResults prints its fixed table.
DisplayExpected ==
    /\ pc = "expected"
    /\ pc' = "cleanup"
    /\ UNCHANGED << i, ctxExpired, mainOpen, backendVars, result, runErr, results,
                    started, late, returned, displayed, dropDb, panicAt, reportVars >>

\* database.Drop(ctx) on main's client; its error is not looked at.
Cleanup ==
    /\ pc = "cleanup"
    /\ dropDb' = dropDb + 1
    /\ collections' = IF ctxExpired THEN collections
                      ELSE [c \in AllCollections |-> 0]
    /\ pc' = "exit"
    /\ UNCHANGED << i, ctxExpired, mainOpen, nextConn, client, conns, ops, result,
                    runErr, results, started, late, returned, displayed, panicAt,
                    reportVars >>

\* main returns: the deferred client.Disconnect and cancel run.
Exit ==
    /\ pc = "exit"
    /\ mainOpen' = FALSE
    /\ pc' = "done"
    /\ UNCHANGED << i, ctxExpired, backendVars, result, runErr, results, started,
                    late, returned, displayed, dropDb, panicAt, reportVars >>

\* --------------------------------------------------------------------------
\* Specifications
\* --------------------------------------------------------------------------
Report ==
    \/ DisplayResults
    \/ ChartStep
    \/ ChartPanic
    \/ ChartDone
    \/ AnalysisStep
    \/ AnalysisDone
    \/ NetworkStep
    \/ NetworkDone
    \/ CostStep
    \/ CostDone

Next ==
    \/ MainConnect
    \/ MainGenerate
    \/ StartTest
    \/ ReturnResults
    \/ Collect
    \/ Abort
    \/ Sleep
    \/ TcConnect
    \/ TcDrop
    \/ TcInsertOk
    \/ TcInsertFail
    \/ TcStatsError
    \/ TcStatsPanic
    \/ TcStatsOk
    \/ DeadlineExpires
    \/ MainFatal
    \/ Report
    \/ DisplayExpected
    \/ Cleanup
    \/ Exit

\* The whole program.
Spec == Init /\ [][Next]_vars

\* The reporter alone, on every result sequence of one to three results that
\* runs of the declared algorithms can produce.
RunResults(n) ==
    { DeriveResult(tests[n].name, getDocumentSize, s, t) : s \in StorageSizes, t \in InsertTimes }

ResultSeqs ==
    UNION { { rs \in [1..n -> UNION { RunResults(m) : m \in 1..Len(tests) }] :
                \A m \in 1..n : rs[m] \in RunResults(m) }
            : n \in 1..Len(tests) }

InitReport ==
    /\ InitCommon
    /\ pc = "main_check"
    /\ collections = [c \in AllCollections |-> 0]
    /\ \E rs \in ResultSeqs :
          returned = [nil |-> FALSE, results |-> rs, err |-> "", failed |-> ""]

SpecReport == InitReport /\ [][Report]_vars


\* --------------------------------------------------------------------------
\* Properties
\* --------------------------------------------------------------------------
InRun == pc \in {"tc_connect", "tc_drop", "tc_insert", "tc_stats", "tc_return"}

ReturnedOk == returned # NoReturn /\ returned.err = ""

\* C1 (fail-fast): once testCompression has returned an error for the k-th
\* algorithm, only the algorithms 1..k have been started, the orchestrator
\* returns that error for algorithm k with a nil slice (not the results
\* collected so far), and main ends without calling displayResults.
C1_FailFast ==
    /\ (pc = "tc_return" /\ runErr # "") => started = 1..i
    /\ returned.err # "" =>
          /\ pc \in {"main_check", "fatal"}
          /\ started = 1..i
          /\ returned.failed = tests[i].name
          /\ returned.err = runErr
          /\ returned.nil
          /\ returned.results = << >>
          /\ ~displayed

\* The second algorithm failed after the first had produced a result, and
\* the process has ended.
C1_Witness ==
    /\ pc = "fatal"
    /\ returned.failed = "Zlib"
    /\ Len(results) = 1
    /\ started = {1, 2}

\* C2 (order preservation): the slice being collected always holds the
\* results of the first algorithms in declaration order, the algorithms are
\* started one after the other in that order, and a return without error
\* hands back exactly three results named Snappy, Zlib, Zstd.
C2_OrderPreserved ==
    /\ \A n \in 1..Len(results) : results[n].Algorithm = tests[n].name
    /\ \E n \in 0..Len(tests) : started = 1..n
    /\ InRun => /\ result.Algorithm = tests[i].name
                /\ started = 1..i
                /\ Len(results) = i - 1
    /\ ReturnedOk =>
          /\ Len(returned.results) = 3
          /\ returned.results[1].Algorithm = "Snappy"
          /\ returned.results[2].Algorithm = "Zlib"
          /\ returned.results[3].Algorithm = "Zstd"

\* A return without error in which the later runs were the faster and the
\* larger ones.
C2_Witness ==
    /\ ReturnedOk
    /\ Len(returned.results) = 3
    /\ returned.results[1].InsertTime > returned.results[3].InsertTime
    /\ returned.results[1].CompressedSize < returned.results[2].CompressedSize

\* C3 (per-run teardown): a per-algorithm client is connected only between
\* the successful connect of a run and the end of that run, it is the client
\* of the run in progress, and none is connected when testCompression has
\* returned or panicked, when the next run begins, or afterwards.
C3_Teardown ==
    /\ Cardinality(conns) <= 1
    /\ pc \in {"tc_drop", "tc_insert", "tc_stats"} =>
          /\ client = nextConn
          /\ \E c \in conns : c.id = client
    /\ pc \notin {"tc_drop", "tc_insert", "tc_stats"} => conns = {}

\* The second run connected, its insert failed, and the call has returned.
C3_Witness ==
    /\ pc = "tc_return"
    /\ runErr = "write"
    /\ client = 2
    /\ Len(ops) = 3
    /\ conns = {}

\* C4 (run protocol): the backend operations of a run are a prefix of
\* connect, drop, insert, stats; the connect names only the algorithm's own
\* compressor; drop, insert and stats follow a successful connect, use the
\* client it returned and the collection named after the algorithm; stats
\* follows a successful insert; no operation is issued twice.
C4_RunProtocol ==
    (InRun \/ pc = "sleep") =>
       LET expectedOps  == << "connect", "drop", "insert", "stats" >>
           expectedColl == << "test_snappy", "test_zlib", "test_zstd" >>
           expectedComp == << "snappy", "zlib", "zstd" >>
       IN  /\ Len(ops) <= 4
           /\ \A n \in 1..Len(ops) :
                 /\ ops[n].op = expectedOps[n]
                 /\ n > 1 => /\ ops[1].ok
                             /\ ops[n].conn = ops[1].conn
                             /\ ops[n].conn = client
                             /\ ops[n].coll = expectedColl[i]
           /\ Len(ops) = 4 => ops[3].ok
           /\ \A c \in conns : c.compressors = << expectedComp[i] >>
           /\ pc = "tc_drop" => conns # {}

\* The second run went through all four operations.
C4_Witness ==
    /\ pc = "tc_return"
    /\ i = 2
    /\ Len(ops) = 4
    /\ ops[4].ok


\* C5 (a run that grows the payload is a valid outcome): when every result
\* shown has a non-zero storage size and some storage size exceeds the
\* original size, the reporter does not crash.
C5_GrowthDoesNotCrash ==
    ( /\ displayed
      /\ \A n \in 1..Len(Shown) : Shown[n].CompressedSize # 0
      /\ \E n \in 1..Len(Shown) : Shown[n].CompressedSize > Shown[n].OriginalSize )
    => pc # "panic"

\* C6 (a stats failure is an error value): when the collStats reply lacks
\* storageSize or holds it as something other than an int64, the run does
\* not panic and testCompression returns an error.
C6_StatsFailureIsError ==
    \A n \in 1..Len(ops) :
        (ops[n].op = "stats" /\ ops[n].kind \in {"missing", "int32"}) =>
            /\ panicAt # "testCompression"
            /\ runErr # ""

\* C7 as stated (the deadline is honored by every backend operation): a
\* connect, insert or stats call made after the deadline fails with a
\* cancellation error, the run then returns that error, and no algorithm
\* whose run began after the deadline gets a result.
C7_EveryCallFailsAfterDeadline ==
    /\ InRun =>
          \A n \in 1..Len(ops) :
              (ops[n].expired /\ ops[n].op \in {"connect", "insert", "stats"}) =>
                  (~ops[n].ok /\ ops[n].kind = "cancel")
    /\ \A n \in late : Len(results) < n
    /\ ReturnedOk => late = {}

\* C7 as amended: an insert or stats call made after the deadline fails with
\* a cancellation error, and so does a connect that fails after it (a connect
\* may also still hand back a client); the run returns the cancellation error
\* of the call that failed; the orchestrator returns it without starting a
\* further run or repeating a call; no algorithm whose run began after the
\* deadline gets a result, and a run that began after the deadline never
\* returns without error.
C7_DeadlineHonored ==
    /\ InRun =>
          /\ \A n \in 1..Len(ops) :
                /\ (ops[n].expired /\ ops[n].op \in {"insert", "stats"}) =>
                      (~ops[n].ok /\ ops[n].kind = "cancel")
                /\ (ops[n].expired /\ ops[n].op = "connect" /\ ~ops[n].ok) =>
                      ops[n].kind = "cancel"
                /\ (~ops[n].ok /\ ops[n].kind = "cancel" /\ ops[n].op # "drop") =>
                      (pc = "tc_return" /\ runErr = "cancel" /\ n = Len(ops))
          /\ (pc = "tc_return" /\ i \in late) => runErr # ""
          /\ \A m, n \in 1..Len(ops) : ops[m].op = ops[n].op => m = n
    /\ \A n \in late : Len(results) < n /\ started \subseteq 1..n
    /\ nextConn <= Cardinality(started)
    /\ ReturnedOk => late = {}
    /\ (returned.err # "" /\ late # {}) => returned.err = "cancel"

\* The deadline passed during the pause after the first run; the second run
\* connected, its insert was cancelled, and the benchmark was aborted with
\* the one result collected before.
C7_Witness ==
    /\ pc = "fatal"
    /\ late = {2}
    /\ Len(results) = 1
    /\ returned.err = "cancel"
    /\ Len(ops) = 3
    /\ ops[1].ok /\ ops[1].expired


\* Number of results the analysis loop has gone through.
Analysed ==
    IF pc = "analysis" THEN k - 1
    ELSE IF pc \in {"network", "cost", "expected"} THEN Len(Shown)
    ELSE 0

\* C8 (stable selection): after the analysis loop has gone through the first
\* n results, bestCompression is the first of them that reaches the largest
\* reduction percentage among them and fastest is the first of them that
\* reaches the smallest insert time among them; at the end of the loop this
\* is the first maximal and the first minimal element of the whole sequence.
C8_FirstWins ==
    Analysed >= 1 =>
       LET seen == 1..Analysed
           firstBest ==
               CHOOSE n \in seen :
                  /\ \A m \in seen :
                        ~FracLess(Shown[n].ReductionPercent, Shown[m].ReductionPercent)
                  /\ \A m \in seen :
                        (m < n) => FracLess(Shown[m].ReductionPercent, Shown[n].ReductionPercent)
           firstFastest ==
               CHOOSE n \in seen :
                  /\ \A m \in seen : Shown[n].InsertTime <= Shown[m].InsertTime
                  /\ \A m \in seen : (m < n) => Shown[m].InsertTime > Shown[n].InsertTime
       IN  /\ bestCompression = Shown[firstBest]
           /\ fastest = Shown[firstFastest]

\* The loop has ended on three results; the first two tie for the largest
\* reduction, the last two tie for the smallest insert time.
C8_Witness ==
    /\ pc = "network"
    /\ Len(Shown) = 3
    /\ Shown[1].ReductionPercent = Shown[2].ReductionPercent
    /\ FracLess(Shown[3].ReductionPercent, Shown[1].ReductionPercent)
    /\ Shown[2].InsertTime = Shown[3].InsertTime
    /\ Shown[1].InsertTime > Shown[2].InsertTime
    /\ bestCompression.Algorithm = "Snappy"
    /\ fastest.Algorithm = "Zlib"

\* C9 as stated (one transfer count): every row of the network simulation
\* projects compressed size times one million transfers, and every row of the
\* cost analysis prices that same volume.
C9_SameTransferCount ==
    /\ \A n \in 1..Len(network) :
          network[n].total = Shown[n].CompressedSize * 1000000
    /\ \A n \in 1..Len(costs) :
          /\ costs[n].volume = Shown[n].CompressedSize * 1000000
          /\ costs[n].cost = costs[n].volume * 9
          /\ costs[n].volume = network[n].total

\* C9 as amended: the network simulation projects compressed size times one
\* thousand transfers, the cost analysis prices compressed size times one
\* million transfers (a thousand times the simulated traffic) at 9 cents per
\* gigabyte, and the percentage saved is nevertheless the same in both rows
\* of an algorithm.
C9_TwoTransferCounts ==
    /\ \A n \in 1..Len(network) :
          /\ network[n].Algorithm = Shown[n].Algorithm
          /\ network[n].total = Shown[n].CompressedSize * 1000
          /\ network[n].saved = (Shown[1].OriginalSize - Shown[n].CompressedSize) * 1000
    /\ \A n \in 1..Len(costs) :
          /\ costs[n].Algorithm = Shown[n].Algorithm
          /\ costs[n].volume = Shown[n].CompressedSize * 1000000
          /\ costs[n].cost = costs[n].volume * 9
          /\ costs[n].volume = 1000 * network[n].total
          /\ costs[n].costReduction = network[n].savingsPercent

\* Both tables are complete for three results of which one stores something.
C9_Witness ==
    /\ pc = "expected"
    /\ Len(network) = 3
    /\ Len(costs) = 3
    /\ Shown[2].CompressedSize > 0
    /\ costs[2].volume > network[2].total

\* C10 (no residue): when the process has ended after at least one run
\* completed its insert, the database was dropped exactly once and no
\* per-algorithm collection is left.
C10_NoResidue ==
    (pc \in {"done", "fatal", "panic"} /\ Len(results) >= 1) =>
        /\ dropDb = 1
        /\ \A c \in AllCollections : collections[c] = 0

====
